---- MODULE Spec2Model ----
(***************************************************************************)
(* Model of src/server.js: an express service over two PostgreSQL tables,  *)
(* registrations and generatedkeys.                                        *)
(*                                                                         *)
(* The handler of POST /api/generate-serial ("issue serial") is a process  *)
(* with one step per await: every action below is the database executing   *)
(* the awaited statement followed by the JavaScript that runs until the    *)
(* next await (node runs that part without interleaving).  The handlers    *)
(* that make a single pool.query call are one action each.                 *)
(*                                                                         *)
(* Database semantics are PostgreSQL's at READ COMMITTED:                  *)
(*  - SELECT ... FOR UPDATE takes a statement snapshot, then locks the     *)
(*    matching rows one by one in scan order, waiting for a row that       *)
(*    another open transaction has locked; the query has no ORDER BY, so   *)
(*    the scan order is any order;                                         *)
(*  - an INSERT of a serial that a committed row holds is a unique         *)
(*    violation; if an uncommitted row of another transaction holds it,    *)
(*    the INSERT waits for that transaction to end;                        *)
(*  - a statement error leaves the transaction aborted, its locks held     *)
(*    until ROLLBACK; a lost connection ends the session, and the server   *)
(*    rolls its transaction back;                                          *)
(*  - a wait cycle is broken by a "deadlock detected" statement error.     *)
(* Rows carry the columns the handlers read or write; created_at and the   *)
(* generatedkeys.id sequence are read by no handler and are left out, so   *)
(* generatedkeys is a bag of rows: two rows may agree on every other       *)
(* column unless a constraint forbids it.                                  *)
(***************************************************************************)
EXTENDS Integers, Sequences, FiniteSets, Bags, TLC

\* ------------------------------------------------------------------ bounds
NumReq == 2          \* issue-serial requests in one behaviour
MaxRegs == 2         \* rows the registrations table may reach
NumTokens == 2       \* distinct values the random serial generator can draw

Procs == 1..NumReq

\* ------------------------------------------------------------------ inputs
\* Strings are sequences of one-character strings.  Missing stands for a
\* field that is absent or the empty string: both are falsy in JavaScript.
Missing == << >>
UserA == <<"a", "b", "c">>
UserB == <<"B", "_", "7">>
RobloxInputs == {Missing, <<"a", ".", "c">>, UserA, UserB}
DiscordInputs == {Missing, <<"x">>, <<"u", ".", "n">>}
ReasonInputs == {Missing, <<"r">>}
IssueInputs == {Missing, UserA, UserB}

Letters ==
    {"a","b","c","d","e","f","g","h","i","j","k","l","m","n","o","p","q","r",
     "s","t","u","v","w","x","y","z","A","B","C","D","E","F","G","H","I","J",
     "K","L","M","N","O","P","Q","R","S","T","U","V","W","X","Y","Z"}
Digits == {"0","1","2","3","4","5","6","7","8","9"}

\* RegExp.prototype.test for a pattern ^[class]{min,max}$ (no flags): from
\* position i with n characters of the class consumed, the quantifier takes
\* one more character if it may, or stops, and then $ must be at the end of
\* the input.
RECURSIVE MatchFrom(_, _, _, _, _, _)
MatchFrom(s, i, n, class, min, max) ==
    \/ /\ n < max
       /\ i <= Len(s)
       /\ s[i] \in class
       /\ MatchFrom(s, i + 1, n + 1, class, min, max)
    \/ /\ n >= min
       /\ i = Len(s) + 1

\* Mutant of validateRobloxUser: the pattern lacks the closing $ anchor.
validateRobloxUserNoEnd(username) ==
    \E n \in 3..20 :
        /\ n <= Len(username)
        /\ \A i \in 1..n : username[i] \in Letters \cup Digits \cup {"_"}

\* /^[a-zA-Z0-9_]{3,20}$/.test(username); the catch returns false.
validateRobloxUser(username) ==
    MatchFrom(username, 1, 0, Letters \cup Digits \cup {"_"}, 3, 20)

\* /^[a-zA-Z0-9_.]{2,32}$/.test(username); the catch returns false.
validateDiscordUser(username) ==
    MatchFrom(username, 1, 0, Letters \cup Digits \cup {"_", "."}, 2, 32)

\* Strings the validators are run on: n copies of a character, with the
\* first or the last character replaced by another one.
MaxValLen == 33
SampleChars == {"a", "Z", "0", "_", ".", "-", " "}
Uniform(c, n) == [i \in 1..n |-> c]
Subst(s, k, d) == [i \in 1..Len(s) |-> IF i = k THEN d ELSE s[i]]
ValInputs ==
    UNION {{Subst(Uniform(c, n), k, d) :
                c \in {"a", "_"}, k \in {1, n}, d \in SampleChars} :
           n \in 0..MaxValLen}
NotRun == [ran |-> FALSE, roblox |-> FALSE, discord |-> FALSE]

\* 'scriptxserial_' + two random base-36 segments: the prefix and the token drawn.
GeneratedSerial(n) == <<"scriptxserial_", n>>
Serials == {GeneratedSerial(n) : n \in 1..NumTokens}
SerialInputs == {Missing} \cup Serials
NoSerial == << >>

NULL == 0            \* registration_id of an unlinked key

\* A generatedkeys row.  issuedBy is not a column: it records the request that
\* inserted the row (0 for save-serial), for the properties below.
KeyRow(id, s, who) == [registration_id |-> id, serial |-> s, issuedBy |-> who]

VARIABLES
    regs,            \* registrations: sequence of rows, id = position
    keys,            \* generatedkeys: bag of committed rows
    pc,              \* per request: the await it is suspended at
    req,             \* per request: req.body.robloxUsername
    client,          \* per request: "none", "ok", "broken", "released"
    releases,        \* per request: calls of client.release()
    txn,             \* per request: server transaction "none", "open", "aborted"
    scan,            \* per request: ids matched by the locking lookup, scan order
    nlocked,         \* per request: how many of scan are locked
    registrationId,  \* per request: rows[0].id
    serialKey,       \* per request: the serial generated or found
    pending,         \* per request: rows inserted and not yet committed
    failedAt,        \* per request: the await that rejected first, "none" if none
    error,           \* per request: what it rejected with, "none" if nothing
    overlap,         \* per request: another request for its name was in flight
                     \*   when it arrived (history, read by no handler)
    resp,            \* per request: responses written, in order
    input,           \* the string the validators are called with
    valid            \* their results, NotRun before the call

vars == <<regs, keys, pc, req, client, releases, txn, scan, nlocked,
          registrationId, serialKey, pending, failedAt, error, overlap, resp,
          input, valid>>

valvars == <<input, valid>>
dbvars == <<regs, keys>>
procvars == <<pc, req, client, releases, txn, scan, nlocked,
              registrationId, serialKey, pending, failedAt, error, overlap,
              resp>>

ServiceInit ==
    /\ regs = << >>
    /\ keys = EmptyBag
    /\ pc = [p \in Procs |-> "idle"]
    /\ req = [p \in Procs |-> Missing]
    /\ client = [p \in Procs |-> "none"]
    /\ releases = [p \in Procs |-> 0]
    /\ txn = [p \in Procs |-> "none"]
    /\ scan = [p \in Procs |-> << >>]
    /\ nlocked = [p \in Procs |-> 0]
    /\ registrationId = [p \in Procs |-> NULL]
    /\ serialKey = [p \in Procs |-> NoSerial]
    /\ pending = [p \in Procs |-> {}]
    /\ failedAt = [p \in Procs |-> "none"]
    /\ error = [p \in Procs |-> "none"]
    /\ overlap = [p \in Procs |-> FALSE]
    /\ resp = [p \in Procs |-> << >>]

Init ==
    /\ ServiceInit
    /\ input = Missing
    /\ valid = NotRun

\* ------------------------------------------------------------ the database
Range(s) == {s[i] : i \in 1..Len(s)}

\* Mutant of Locks: the lookup is sent without FOR UPDATE and locks nothing.
LocksNone(p) == {}

\* Rows of registrations a transaction holds FOR UPDATE.
Locks(p) == {scan[p][i] : i \in 1..nlocked[p]}

\* Mutant of LockedByOther: the row lock does not exclude other transactions.
NoRowLock(p, id) == FALSE

\* Mutant of LockedByOther: the lookup locks the table, not the rows.
TableLock(p, id) == \E q \in Procs \ {p} : Locks(q) # {}

LockedByOther(p, id) == \E q \in Procs \ {p} : id \in Locks(q)

\* Mutant of MatchingIds: the WHERE clause is missing, every row matches.
MatchingIdsAnyName(name) == 1..Len(regs)

\* WHERE roblox_username = $1
MatchingIds(name) == {i \in 1..Len(regs) : regs[i].roblox_username = name}

\* The orders a scan can return a set of ids in.
Orders(S) == {s \in [1..Cardinality(S) -> S] : Range(s) = S}

\* The distinct committed rows of generatedkeys.
Keys == BagToSet(keys)

\* Mutant of KeysOf: the key query misses the rows other requests committed.
KeysOfOwnOnly(p, id) == {k \in pending[p] : k.registration_id = id}

\* WHERE registration_id = $1, on the committed rows and the transaction's own.
KeysOf(p, id) == {k \in Keys \cup pending[p] : k.registration_id = id}

\* Mutant of SerialCommitted: the serial column has no UNIQUE constraint.
NoUniqueConstraint(s) == FALSE

\* The UNIQUE constraint on serial (line 71) against the committed rows.
SerialCommitted(s) == \E k \in Keys : k.serial = s

SerialPendingElsewhere(p, s) ==
    \E q \in Procs \ {p} : \E k \in pending[q] : k.serial = s

SerialPending(s) == \E q \in Procs : \E k \in pending[q] : k.serial = s

\* p waits for q: on a row lock in the locking lookup, or on q's uncommitted
\* serial in the insert.
WaitsFor(p, q) ==
    /\ p # q
    /\ \/ /\ pc[p] = "locking"
          /\ nlocked[p] < Len(scan[p])
          /\ scan[p][nlocked[p] + 1] \in Locks(q)
       \/ /\ pc[p] = "insert"
          /\ \E k \in pending[q] : k.serial = serialKey[p]

RECURSIVE ReachFrom(_, _)
ReachFrom(S, n) ==
    IF n = 0 THEN S
    ELSE ReachFrom(S \cup {q \in Procs : \E r \in S : WaitsFor(r, q)}, n - 1)

Deadlocked(p) ==
    p \in ReachFrom({q \in Procs : WaitsFor(p, q)}, NumReq)

\* ------------------------------------------------------------------ the pool
\* new Pool({connectionString, ssl}) sets no max: pg keeps at most 10 clients,
\* and pool.connect() and pool.query() wait while all of them are checked out.
PoolMax == 10

InUse == Cardinality({p \in Procs : client[p] \in {"ok", "broken"}})

PoolFree == InUse < PoolMax

\* ---------------------------------------------------- the end of a request
Response(status, serial) == [status |-> status, serialKey |-> serial]

\* The server ends p's transaction: locks released, uncommitted rows dropped.
EndTxn(p) ==
    /\ txn' = [txn EXCEPT ![p] = "none"]
    /\ scan' = [scan EXCEPT ![p] = << >>]
    /\ nlocked' = [nlocked EXCEPT ![p] = 0]
    /\ pending' = [pending EXCEPT ![p] = {}]

\* Mutant of Release: the client is never given back.
ReleaseForgotten(p) == UNCHANGED <<client, releases>>

\* finally { client.release() }
Release(p) ==
    /\ client' = [client EXCEPT ![p] = "released"]
    /\ releases' = [releases EXCEPT ![p] = @ + 1]

\* res.status(..).json(..), and the handler returns.
Respond(p, status, serial) ==
    /\ resp' = [resp EXCEPT ![p] = Append(@, Response(status, serial))]
    /\ pc' = [pc EXCEPT ![p] = "done"]

\* The await p is suspended at: the locking lookup is one await.
Await(p) == IF pc[p] = "locking" THEN "lookup" ELSE pc[p]

\* A query of p rejects with the error how.  "connection": the connection is
\* lost and the server session, with its transaction, is gone.  Otherwise the
\* server raised the error ("unique_violation", "deadlock_detected") and the
\* transaction is aborted, still holding its locks.  Control goes to the inner
\* catch block (333), which sends ROLLBACK.
QueryFails(p, how) ==
    /\ pc' = [pc EXCEPT ![p] = "catch"]
    /\ failedAt' = [failedAt EXCEPT ![p] = Await(p)]
    /\ error' = [error EXCEPT ![p] = how]
    /\ IF how = "connection"
       THEN /\ client' = [client EXCEPT ![p] = "broken"]
            /\ EndTxn(p)
       ELSE /\ txn' = [txn EXCEPT ![p] = "aborted"]
            /\ UNCHANGED <<client, scan, nlocked, pending>>

\* ------------------------------------------- POST /api/generate-serial
\* Lines 269-280: the request arrives; without robloxUsername it is answered
\* 400 before any storage call, otherwise pool.connect() is awaited.
Start(p, name) ==
    /\ pc[p] = "idle"
    /\ req' = [req EXCEPT ![p] = name]
    /\ overlap' = [overlap EXCEPT ![p] =
          \E q \in Procs \ {p} : pc[q] \notin {"idle", "done"} /\ req[q] = name]
    /\ IF name = Missing
       THEN /\ Respond(p, 400, NoSerial)
       ELSE /\ pc' = [pc EXCEPT ![p] = "connect"]
            /\ UNCHANGED resp
    /\ UNCHANGED <<dbvars, client, releases, txn, scan, nlocked,
                   registrationId, serialKey, pending, failedAt, error>>
    /\ UNCHANGED valvars

\* Line 280 resolves; line 282 sends BEGIN.
Connect(p) ==
    /\ pc[p] = "connect"
    /\ PoolFree
    /\ client' = [client EXCEPT ![p] = "ok"]
    /\ pc' = [pc EXCEPT ![p] = "begin"]
    /\ UNCHANGED <<dbvars, req, releases, txn, scan, nlocked,
                   registrationId, serialKey, pending, failedAt, error, overlap, resp>>
    /\ UNCHANGED valvars

\* Mutant of ConnectFails: the rejection of line 280 is not caught and the
\* handler ends without writing a response.
ConnectFailsUnanswered(p) ==
    /\ pc[p] = "connect"
    /\ failedAt' = [failedAt EXCEPT ![p] = "connect"]
    /\ error' = [error EXCEPT ![p] = "connection"]
    /\ pc' = [pc EXCEPT ![p] = "done"]
    /\ UNCHANGED <<dbvars, req, client, releases, txn, scan, nlocked,
                   registrationId, serialKey, pending, overlap, resp>>
    /\ UNCHANGED valvars

\* Line 280 rejects: no client, the outer catch (339-342) answers 500.
ConnectFails(p) ==
    /\ pc[p] = "connect"
    /\ failedAt' = [failedAt EXCEPT ![p] = "connect"]
    /\ error' = [error EXCEPT ![p] = "connection"]
    /\ Respond(p, 500, NoSerial)
    /\ UNCHANGED <<dbvars, req, client, releases, txn, scan, nlocked,
                   registrationId, serialKey, pending, overlap>>
    /\ UNCHANGED valvars

\* Line 282 resolves: the transaction is open; line 285 sends the lookup.
Begin(p) ==
    /\ pc[p] = "begin"
    /\ txn' = [txn EXCEPT ![p] = "open"]
    /\ pc' = [pc EXCEPT ![p] = "lookup"]
    /\ UNCHANGED <<dbvars, req, client, releases, scan, nlocked,
                   registrationId, serialKey, pending, failedAt, error, overlap, resp>>
    /\ UNCHANGED valvars

\* The connection is lost while p awaits a query (282, 285, 299, 317, 292, 306).
ConnectionLost(p) ==
    /\ pc[p] \in {"begin", "lookup", "locking", "keycheck", "insert",
                  "rollback404", "rollbackExists"}
    /\ QueryFails(p, "connection")
    /\ UNCHANGED <<dbvars, req, releases, registrationId, serialKey,
                   overlap, resp>>
    /\ UNCHANGED valvars

\* Lines 285-288, start of the statement: the snapshot of the matching rows
\* and the order the scan will lock and return them in.
LookupScan(p) ==
    /\ pc[p] = "lookup"
    /\ \E order \in Orders(MatchingIds(req[p])) :
          scan' = [scan EXCEPT ![p] = order]
    /\ pc' = [pc EXCEPT ![p] = "locking"]
    /\ UNCHANGED <<dbvars, req, client, releases, txn, nlocked,
                   registrationId, serialKey, pending, failedAt, error, overlap, resp>>
    /\ UNCHANGED valvars

\* FOR UPDATE: the next row of the scan is locked once no other transaction
\* holds it.
LockRow(p) ==
    /\ pc[p] = "locking"
    /\ nlocked[p] < Len(scan[p])
    /\ ~LockedByOther(p, scan[p][nlocked[p] + 1])
    /\ nlocked' = [nlocked EXCEPT ![p] = @ + 1]
    /\ UNCHANGED <<dbvars, pc, req, client, releases, txn, scan,
                   registrationId, serialKey, pending, failedAt, error, overlap, resp>>
    /\ UNCHANGED valvars

\* The server breaks a wait cycle: p's statement fails "deadlock detected".
DeadlockDetected(p) ==
    /\ pc[p] \in {"locking", "insert"}
    /\ Deadlocked(p)
    /\ QueryFails(p, "deadlock_detected")
    /\ UNCHANGED <<dbvars, req, releases, registrationId, serialKey,
                   overlap, resp>>
    /\ UNCHANGED valvars

\* Mutant of LookupReturns: registrationId is the id of the newest row of the
\* table instead of rows[0].id.
LookupReturnsLastId(p) ==
    /\ pc[p] = "locking"
    /\ nlocked[p] = Len(scan[p])
    /\ IF Len(scan[p]) = 0
       THEN /\ pc' = [pc EXCEPT ![p] = "rollback404"]
            /\ UNCHANGED registrationId
       ELSE /\ registrationId' = [registrationId EXCEPT ![p] = Len(regs)]
            /\ pc' = [pc EXCEPT ![p] = "keycheck"]
    /\ UNCHANGED <<dbvars, req, client, releases, txn, scan, nlocked,
                   serialKey, pending, failedAt, error, overlap, resp>>
    /\ UNCHANGED valvars

\* Lines 285-302: the lookup resolves.  No row: ROLLBACK is sent (292).
\* Otherwise registrationId = rows[0].id and the key query is sent (299).
LookupReturns(p) ==
    /\ pc[p] = "locking"
    /\ nlocked[p] = Len(scan[p])
    /\ IF Len(scan[p]) = 0
       THEN /\ pc' = [pc EXCEPT ![p] = "rollback404"]
            /\ UNCHANGED registrationId
       ELSE /\ registrationId' = [registrationId EXCEPT ![p] = scan[p][1]]
            /\ pc' = [pc EXCEPT ![p] = "keycheck"]
    /\ UNCHANGED <<dbvars, req, client, releases, txn, scan, nlocked,
                   serialKey, pending, failedAt, error, overlap, resp>>
    /\ UNCHANGED valvars

\* Lines 292-293: ROLLBACK resolves, 404 is written, finally releases.
Rollback404(p) ==
    /\ pc[p] = "rollback404"
    /\ EndTxn(p)
    /\ Respond(p, 404, NoSerial)
    /\ Release(p)
    /\ UNCHANGED <<dbvars, req, registrationId, serialKey, failedAt,
                   error, overlap>>
    /\ UNCHANGED valvars

\* Lines 299-320: the key query resolves.  A row: ROLLBACK is sent (306) and
\* the row's serial is kept for the response.  No row: a serial is generated
\* (314) and the INSERT is sent (317).
KeyCheck(p) ==
    /\ pc[p] = "keycheck"
    /\ IF KeysOf(p, registrationId[p]) # {}
       THEN /\ \E k \in KeysOf(p, registrationId[p]) :
                  serialKey' = [serialKey EXCEPT ![p] = k.serial]
            /\ pc' = [pc EXCEPT ![p] = "rollbackExists"]
       ELSE /\ \E n \in 1..NumTokens :
                  serialKey' = [serialKey EXCEPT ![p] = GeneratedSerial(n)]
            /\ pc' = [pc EXCEPT ![p] = "insert"]
    /\ UNCHANGED <<dbvars, req, client, releases, txn, scan, nlocked,
                   registrationId, pending, failedAt, error, overlap, resp>>
    /\ UNCHANGED valvars

\* Lines 306-310: ROLLBACK resolves, the response with status 400, an error
\* message and the existing serial is written, finally releases.
RollbackExists(p) ==
    /\ pc[p] = "rollbackExists"
    /\ EndTxn(p)
    /\ Respond(p, 400, serialKey[p])
    /\ Release(p)
    /\ UNCHANGED <<dbvars, req, registrationId, serialKey, failedAt,
                   error, overlap>>
    /\ UNCHANGED valvars

\* Lines 317-322: the INSERT executes once no uncommitted row of another
\* transaction holds the serial.  A committed row with the serial is a
\* unique violation (control goes to the catch at 333); otherwise the row is
\* inserted, uncommitted, and COMMIT is sent (322).
Insert(p) ==
    /\ pc[p] = "insert"
    /\ ~SerialPendingElsewhere(p, serialKey[p])
    /\ IF SerialCommitted(serialKey[p])
       THEN /\ QueryFails(p, "unique_violation")
       ELSE /\ pending' = [pending EXCEPT ![p] =
                  {KeyRow(registrationId[p], serialKey[p], p)}]
            /\ pc' = [pc EXCEPT ![p] = "commit"]
            /\ UNCHANGED <<client, txn, scan, nlocked, failedAt, error>>
    /\ UNCHANGED <<dbvars, req, releases, registrationId, serialKey,
                   overlap, resp>>
    /\ UNCHANGED valvars

\* Lines 322-332: COMMIT resolves: the row is committed and the locks are
\* released; 200 with keyResult.rows[0].serial is written, finally releases.
Commit(p) ==
    /\ pc[p] = "commit"
    /\ keys' = keys (+) SetToBag(pending[p])
    /\ EndTxn(p)
    /\ \E k \in pending[p] : Respond(p, 200, k.serial)
    /\ Release(p)
    /\ UNCHANGED <<regs, req, registrationId, serialKey, failedAt,
                   error, overlap>>
    /\ UNCHANGED valvars

\* Mutant of CommitFails: the rejection of COMMIT is swallowed and the
\* inserted serial is answered.
CommitFailsSwallowed(p, applied) ==
    /\ pc[p] = "commit"
    /\ keys' = IF applied THEN keys (+) SetToBag(pending[p]) ELSE keys
    /\ EndTxn(p)
    /\ \E k \in pending[p] : Respond(p, 200, k.serial)
    /\ Release(p)
    /\ UNCHANGED <<regs, req, registrationId, serialKey, failedAt,
                   error, overlap>>
    /\ UNCHANGED valvars

\* Line 322 rejects: the connection was lost during COMMIT, and the server
\* had either committed already (applied) or not.
CommitFails(p, applied) ==
    /\ pc[p] = "commit"
    /\ keys' = IF applied THEN keys (+) SetToBag(pending[p]) ELSE keys
    /\ QueryFails(p, "connection")
    /\ UNCHANGED <<regs, req, releases, registrationId, serialKey,
                   overlap, resp>>
    /\ UNCHANGED valvars

\* Mutant of Catch: the catch block rethrows without sending ROLLBACK.
CatchWithoutRollback(p) ==
    /\ pc[p] = "catch"
    /\ Release(p)
    /\ Respond(p, 500, NoSerial)
    /\ UNCHANGED <<dbvars, req, registrationId, serialKey, failedAt,
                   error, overlap, txn, scan, nlocked, pending>>
    /\ UNCHANGED valvars

\* Lines 333-342: the inner catch awaits ROLLBACK, which ends the transaction
\* when the connection is alive and rejects when it is lost (the session is
\* gone then); either way control reaches finally, which releases, and the
\* outer catch, which answers 500.
Catch(p) ==
    /\ pc[p] = "catch"
    /\ EndTxn(p)
    /\ Release(p)
    /\ Respond(p, 500, NoSerial)
    /\ UNCHANGED <<dbvars, req, registrationId, serialKey, failedAt,
                   error, overlap>>
    /\ UNCHANGED valvars

\* ---------------------------------------------- POST /api/validate-users
\* The handlers below await one pool.query call; the statement runs in its own
\* transaction, so each handler is one step.  Its response is a function of
\* the request and the tables; when pool.query rejects because the storage is
\* unreachable the handler answers 500 and no table changes (a stuttering step).

\* Mutant of SubmitStatus: the reason field is not required.
SubmitStatusReasonOptional(robloxUsername, discordUsername, reason) ==
    IF robloxUsername = Missing \/ discordUsername = Missing
    THEN 400
    ELSE IF ~validateRobloxUser(robloxUsername)
            \/ ~validateDiscordUser(discordUsername)
    THEN 400
    ELSE 200

\* Lines 118-146, 158, 168: the status answered to a registration.
SubmitStatus(robloxUsername, discordUsername, reason) ==
    IF robloxUsername = Missing \/ discordUsername = Missing \/ reason = Missing
    THEN 400
    ELSE IF ~validateRobloxUser(robloxUsername)
            \/ ~validateDiscordUser(discordUsername)
    THEN 400
    ELSE 200

\* Lines 122-129 and 139-145: the body of a 400 answer, with one flag per
\* field (the second answer has no reason flag: the field is present there).
SubmitDetails(robloxUsername, discordUsername, reason) ==
    IF robloxUsername = Missing \/ discordUsername = Missing \/ reason = Missing
    THEN [error |-> "Missing required fields",
          roblox |-> robloxUsername = Missing,
          discord |-> discordUsername = Missing,
          reason |-> reason = Missing]
    ELSE [error |-> "Invalid usernames",
          roblox |-> ~validateRobloxUser(robloxUsername),
          discord |-> ~validateDiscordUser(discordUsername),
          reason |-> FALSE]

\* Lines 115-170, with the INSERT of line 149.
SubmitRegistration(robloxUsername, discordUsername, reason) ==
    /\ IF SubmitStatus(robloxUsername, discordUsername, reason) = 200
       THEN /\ PoolFree
            /\ Len(regs) < MaxRegs
            /\ regs' = Append(regs, [roblox_username |-> robloxUsername,
                                     discord_username |-> discordUsername,
                                     reason |-> reason])
       ELSE UNCHANGED regs
    /\ UNCHANGED <<keys, procvars>>
    /\ UNCHANGED valvars

\* --------------------------------------------------- POST /api/save-serial
\* Lines 222-240: the status answered to a save; the INSERT of line 230 is a
\* unique violation when a committed row holds the serial, and the catch at
\* 237 answers 500.
SaveSerialStatus(serial) ==
    IF serial = Missing THEN 400
    ELSE IF SerialCommitted(serial) THEN 500
    ELSE 200

\* Lines 219-241.  The INSERT waits while an uncommitted row holds the serial.
SaveSerial(serial) ==
    /\ serial # Missing => (PoolFree /\ ~SerialPending(serial))
    /\ IF SaveSerialStatus(serial) = 200
       THEN keys' = keys (+) SetToBag({KeyRow(NULL, serial, 0)})
       ELSE UNCHANGED keys
    /\ UNCHANGED <<regs, procvars>>
    /\ UNCHANGED valvars

\* ------------------------- POST /api/check-serial, /api/validate-download
\* Mutant of CheckSerial: only the keys linked to a registration are found.
CheckSerialLinkedOnly(serial) ==
    IF serial = Missing THEN [status |-> 400, exists |-> FALSE]
    ELSE [status |-> 200,
          exists |-> \E k \in Keys :
                        k.serial = serial /\ k.registration_id # NULL]

\* Lines 197-211: SELECT EXISTS(SELECT 1 FROM generatedkeys WHERE serial = $1)
\* reads the committed rows; neither handler writes.
CheckSerial(serial) ==
    IF serial = Missing THEN [status |-> 400, exists |-> FALSE]
    ELSE [status |-> 200, exists |-> \E k \in Keys : k.serial = serial]

\* Lines 247-261.
ValidateDownload(serial) ==
    IF serial = Missing THEN [status |-> 400, valid |-> FALSE]
    ELSE [status |-> 200, valid |-> \E k \in Keys : k.serial = serial]

Next ==
    \/ \E p \in Procs : \E name \in IssueInputs : Start(p, name)
    \/ \E p \in Procs : Connect(p)
    \/ \E p \in Procs : ConnectFails(p)
    \/ \E p \in Procs : Begin(p)
    \/ \E p \in Procs : ConnectionLost(p)
    \/ \E p \in Procs : LookupScan(p)
    \/ \E p \in Procs : LockRow(p)
    \/ \E p \in Procs : DeadlockDetected(p)
    \/ \E p \in Procs : LookupReturns(p)
    \/ \E p \in Procs : Rollback404(p)
    \/ \E p \in Procs : KeyCheck(p)
    \/ \E p \in Procs : RollbackExists(p)
    \/ \E p \in Procs : Insert(p)
    \/ \E p \in Procs : Commit(p)
    \/ \E p \in Procs : \E applied \in BOOLEAN : CommitFails(p, applied)
    \/ \E p \in Procs : Catch(p)
    \/ \E r \in RobloxInputs : \E d \in DiscordInputs : \E w \in ReasonInputs :
          SubmitRegistration(r, d, w)
    \/ \E s \in SerialInputs : SaveSerial(s)

Spec == Init /\ [][Next]_vars

\* ------------------------------------------------------- the validators alone
\* validateRobloxUser and validateDiscordUser called on a string (88-112).
Validate ==
    /\ valid = NotRun
    /\ valid' = [ran |-> TRUE,
                 roblox |-> validateRobloxUser(input),
                 discord |-> validateDiscordUser(input)]
    /\ UNCHANGED <<input, dbvars, procvars>>

NextInput ==
    /\ valid # NotRun
    /\ input' \in ValInputs
    /\ valid' = NotRun
    /\ UNCHANGED <<dbvars, procvars>>

ValInit ==
    /\ ServiceInit
    /\ input \in ValInputs
    /\ valid = NotRun

ValNext == Validate \/ NextInput

ValSpec == ValInit /\ [][ValNext]_vars

\* =================================================================== claims
Done(p) == pc[p] = "done"
Answer(p) == resp[p][Len(resp[p])]
\* The request has answered with a body that has a serialKey field.
Carries(p) == Done(p) /\ Len(resp[p]) > 0 /\ Answer(p).serialKey # NoSerial
\* The committed keys that reference registration id.
LinkedKeys(id) == {k \in Keys : k.registration_id = id}
IssuedBy(p) == {k \in Keys : k.issuedBy = p}
\* No committed row occurs twice.
NoCopies == \A k \in Keys : CopiesIn(k, keys) = 1

\* C1 (invariant I1): at most one committed generatedkeys row references any
\* non-null registration id, whatever the interleaving of registrations,
\* saves and issue-serial requests, failed ones included.
C1_OneKeyPerRegistration ==
    \A k1 \in Keys : \A k2 \in Keys :
        (k1.registration_id # NULL /\ k1.registration_id = k2.registration_id)
            => (k1 = k2 /\ CopiesIn(k1, keys) = 1)

\* Two requests that overlapped have both finished on the same registration,
\* which has its key.
C1_Witness ==
    \E p \in Procs : \E q \in Procs \ {p} :
        /\ Done(p) /\ Done(q) /\ overlap[q]
        /\ registrationId[p] # NULL
        /\ registrationId[p] = registrationId[q]
        /\ LinkedKeys(registrationId[p]) # {}

\* C2: among the issue-serial requests that answered with a serial for one
\* registration, exactly one key row is persisted for it, every answer
\* carries that row's serial, and the request that inserted the row is the
\* only one that found no existing key (status 200); the others found the
\* inserted key.
Group(id) == {p \in Procs : Carries(p) /\ registrationId[p] = id}

C2_ConcurrentIssueOneKey ==
    \A id \in 1..Len(regs) :
        Group(id) # {} =>
            \E k \in Keys :
                /\ LinkedKeys(id) = {k}
                /\ CopiesIn(k, keys) = 1
                /\ \A p \in Group(id) :
                      /\ Answer(p).serialKey = k.serial
                      /\ (Answer(p).status = 200) <=> (k.issuedBy = p)

\* Two overlapping requests for one registration have both answered with a
\* serial, one of them after inserting it.
C2_Witness ==
    \E p \in Procs : \E q \in Procs \ {p} :
        /\ overlap[q]
        /\ registrationId[p] # NULL
        /\ {p, q} \subseteq Group(registrationId[p])
        /\ Answer(p).status = 200

\* C3: a request for a registration that already has a key ends with a
\* success response carrying the existing key, not with an error response.
\* (Stated as claimed; the handler answers status 400 with an error message.)
C3_ExistingKeyIsSuccess ==
    \A p \in Procs : Carries(p) => Answer(p).status = 200

\* C4 (idempotence): once a request has answered 200 with the serial it
\* issued for a registration, any other request that completes without an
\* error for that registration answers the identical serial and has created
\* no row.
C4_Idempotent ==
    \A p \in Procs : \A q \in Procs \ {p} :
        ( /\ Done(p) /\ Done(q)
          /\ Answer(p).status = 200
          /\ registrationId[q] = registrationId[p]
          /\ error[q] = "none" )
        => /\ Answer(q).serialKey = Answer(p).serialKey
           /\ IssuedBy(q) = {}

\* The second call came after the first had finished (no overlap).
C4_Witness ==
    \E p \in Procs : \E q \in Procs \ {p} :
        /\ Done(p) /\ Done(q)
        /\ Answer(p).status = 200
        /\ registrationId[q] = registrationId[p]
        /\ error[q] = "none"
        /\ ~overlap[q] /\ ~overlap[p]
        /\ BagCardinality(keys) = 1

\* C5 (invariant I2): no two generatedkeys rows, linked or unlinked, hold the
\* same serial; and a step that inserts a serial a committed row already
\* holds fails (save-serial answers 500, issue-serial goes to its catch block)
\* and leaves the table as it was.
SerialsUnique ==
    \A k1 \in Keys : \A k2 \in Keys :
        k1.serial = k2.serial => (k1 = k2 /\ CopiesIn(k1, keys) = 1)

DuplicateInsertFails ==
    /\ \A s \in Serials :
          (SaveSerial(s) /\ SerialCommitted(s))
              => (SaveSerialStatus(s) = 500 /\ keys' = keys)
    /\ \A p \in Procs :
          (pc[p] = "insert" /\ pc'[p] # "insert" /\ SerialCommitted(serialKey[p]))
              => (pc'[p] = "catch" /\ keys' = keys /\ pending'[p] = {})

C5_SerialUnique == [](SerialsUnique) /\ [][DuplicateInsertFails]_vars

\* A generated serial has collided with a saved one, and both tables hold a
\* linked and an unlinked key.
C5_Witness ==
    /\ \E p \in Procs : error[p] = "unique_violation"
    /\ \E k \in Keys : k.registration_id = NULL
    /\ \E k \in Keys : k.registration_id # NULL

\* C6: a collision of the generated serial is caught and retried with a new
\* serial; a single collision does not fail the request.  (Stated as claimed;
\* the handler sends one INSERT and answers 500 when it collides.)
C6_CollisionRetried ==
    \A p \in Procs :
        (Done(p) /\ error[p] = "unique_violation") => Answer(p).status # 500

\* C7 (atomicity): a request whose lookup, key query or insert raised an
\* error never has a committed key row, and by the time it has answered
\* (500) its transaction is rolled back: no lock, no uncommitted row.
C7_Atomic ==
    \A p \in Procs :
        failedAt[p] \in {"lookup", "keycheck", "insert"} =>
            /\ IssuedBy(p) = {}
            /\ Done(p) => /\ txn[p] = "none"
                          /\ pending[p] = {}
                          /\ Locks(p) = {}
                          /\ resp[p] = <<Response(500, NoSerial)>>

\* A request failed at its insert after locking its registration, and has
\* answered; the registration has no key.
C7_Witness ==
    \E p \in Procs :
        /\ Done(p)
        /\ failedAt[p] = "insert"
        /\ error[p] = "unique_violation"
        /\ registrationId[p] # NULL
        /\ LinkedKeys(registrationId[p]) = {}

\* C8 (resource discipline): release() is called at most once, and a request
\* that has answered has no open transaction, no row lock, no uncommitted
\* row, and has released its client exactly once if it acquired one.
C8_ResourceDiscipline ==
    \A p \in Procs :
        /\ releases[p] <= 1
        /\ Done(p) =>
              /\ txn[p] = "none"
              /\ Locks(p) = {}
              /\ pending[p] = {}
              /\ client[p] \in {"none", "released"}
              /\ (client[p] = "released") <=> (releases[p] = 1)
              /\ (client[p] = "none") <=>
                     (req[p] = Missing \/ failedAt[p] = "connect")

\* One request has answered 404 and another one 500 after its ROLLBACK was
\* rejected.
C8_Witness ==
    \E p \in Procs : \E q \in Procs \ {p} :
        /\ Done(p) /\ Answer(p).status = 404
        /\ Done(q) /\ failedAt[q] \in {"rollback404", "rollbackExists"}

\* C9: a request without robloxUsername is answered 400 with no storage call;
\* a request whose name matches no registration row and that meets no storage
\* error is answered 404; and a request answered 404 has rolled back and has
\* created no key.
C9_NotFound ==
    \A p \in Procs :
        Done(p) =>
            /\ req[p] = Missing =>
                  /\ resp[p] = <<Response(400, NoSerial)>>
                  /\ client[p] = "none" /\ releases[p] = 0
                  /\ failedAt[p] = "none"
            /\ ( /\ req[p] # Missing
                 /\ error[p] = "none"
                 /\ ~\E i \in 1..Len(regs) : regs[i].roblox_username = req[p] )
               => resp[p] = <<Response(404, NoSerial)>>
            /\ Answer(p).status = 404 =>
                  /\ IssuedBy(p) = {}
                  /\ registrationId[p] = NULL
                  /\ txn[p] = "none"
                  /\ Answer(p).serialKey = NoSerial

\* A request for a name no row matches has answered 404 while the table has
\* rows, and a request without a name has answered.
C9_Witness ==
    \E p \in Procs : \E q \in Procs \ {p} :
        /\ Done(p) /\ Answer(p).status = 404 /\ Len(regs) > 0
        /\ Done(q) /\ req[q] = Missing

\* C10 (invariant I3): every committed key row with a registration_id
\* references an existing registrations row; rows of save-serial have a null
\* registration_id; a row of issue-serial has the id its request took from the
\* locked rows, whose roblox_username is the one requested, and while the row
\* is uncommitted its request holds the lock on that registration.
C10_Referential ==
    /\ \A k \in Keys :
          /\ k.registration_id # NULL => k.registration_id \in 1..Len(regs)
          /\ k.issuedBy = 0 => k.registration_id = NULL
          /\ k.issuedBy # 0 =>
                /\ k.registration_id # NULL
                /\ k.registration_id = registrationId[k.issuedBy]
                /\ regs[k.registration_id].roblox_username = req[k.issuedBy]
    /\ \A p \in Procs : \A k \in pending[p] :
          /\ k.registration_id = registrationId[p]
          /\ k.registration_id \in Locks(p)

\* The table holds a saved (unlinked) key and an issued (linked) one.
C10_Witness ==
    /\ \E k \in Keys : k.issuedBy = 0
    /\ \E k \in Keys : k.issuedBy # 0 /\ k.registration_id \in 1..Len(regs)
    /\ Len(regs) = MaxRegs

\* C11: a request waits only at the locking lookup, and only for a request
\* for the same registration (here: a request with the same robloxUsername
\* that holds the lock it needs).  (Stated as claimed; a request also waits at
\* its INSERT for an uncommitted row with the same serial.)
InFlight(p) == pc[p] \notin {"idle", "done"}

\* The steps of the handler that no error causes.
Proceed(p) ==
    \/ Connect(p) \/ Begin(p) \/ LookupScan(p) \/ LockRow(p)
    \/ LookupReturns(p) \/ Rollback404(p) \/ KeyCheck(p)
    \/ RollbackExists(p) \/ Insert(p) \/ Commit(p) \/ Catch(p)

Blocked(p) == InFlight(p) /\ ~ENABLED Proceed(p)

C11_BlockOnlySameRegistration ==
    \A p \in Procs :
        Blocked(p) =>
            /\ pc[p] = "locking"
            /\ \E q \in Procs \ {p} :
                  /\ scan[p][nlocked[p] + 1] \in Locks(q)
                  /\ req[q] = req[p]

\* C11 as amended: a request that cannot proceed waits either at the locking
\* lookup, for a request with the same robloxUsername that holds the lock on
\* the next row of its scan, or at the key INSERT, for a request that holds an
\* uncommitted row with the same serial (or for a free client when PoolMax are
\* checked out); registrations are accepted whatever locks are held, and
\* save-serial waits only for an uncommitted row with its serial.
LockWait(p) ==
    /\ pc[p] = "locking"
    /\ nlocked[p] < Len(scan[p])
    /\ \E q \in Procs \ {p} :
          /\ InFlight(q)
          /\ req[q] = req[p]
          /\ scan[p][nlocked[p] + 1] \in Locks(q)

SerialWait(p) ==
    /\ pc[p] = "insert"
    /\ \E q \in Procs \ {p} :
          /\ pc[q] = "commit"
          /\ \E k \in pending[q] : k.serial = serialKey[p]

PoolWait(p) == pc[p] = "connect" /\ InUse = PoolMax

C11_BlockingPoints ==
    /\ \A p \in Procs :
          Blocked(p) => (LockWait(p) \/ SerialWait(p) \/ PoolWait(p))
    /\ (Len(regs) < MaxRegs /\ PoolFree) =>
          ENABLED SubmitRegistration(UserA, <<"u", ".", "n">>, <<"r">>)
    /\ \A s \in Serials :
          (PoolFree /\ ~SerialPending(s)) => ENABLED SaveSerial(s)

\* A request for one registration waits at its INSERT for a request that
\* works on another registration, while a third party's lock is held.
C11_Witness ==
    \E p \in Procs : \E q \in Procs \ {p} :
        /\ Blocked(p) /\ SerialWait(p)
        /\ registrationId[p] # registrationId[q]
        /\ req[p] # req[q]

\* ---------------------------------------------------------------- fairness
\* node resumes every handler whose awaited promise has settled, the server
\* executes every statement it can execute, and its deadlock detector ends
\* every wait cycle: each request's next step is taken if it stays possible.
Fairness ==
    \A p \in Procs : WF_vars(Proceed(p)) /\ WF_vars(DeadlockDetected(p))

LiveSpec == Spec /\ Fairness

\* C12 (liveness): under fair scheduling every issue-serial request that has
\* arrived eventually answers; a request waiting for a lock resumes when the
\* holder's transaction ends, and a wait cycle among requests whose name
\* matches several rows is ended by the server.
C12_EveryRequestAnswers ==
    \A p \in Procs : InFlight(p) ~> Done(p)

\* Two requests were in a wait cycle on two rows with one name; the server
\* ended it and both have answered, one of them with a serial.
C12_Witness ==
    \E p \in Procs : \E q \in Procs \ {p} :
        /\ Done(p) /\ error[p] = "deadlock_detected"
        /\ Done(q) /\ Carries(q)

\* C17: validateRobloxUser returns true exactly for the strings of 3 to 20
\* characters that are letters, digits or underscore, validateDiscordUser
\* exactly for the strings of 2 to 32 characters that are letters, digits,
\* underscore or dot; for every other string they return false, and they
\* always return a boolean.
C17_Validators ==
    valid # NotRun =>
        /\ valid.roblox \in BOOLEAN /\ valid.discord \in BOOLEAN
        /\ valid.roblox <=>
              /\ Len(input) \in 3..20
              /\ \A i \in 1..Len(input) :
                    input[i] \in Letters \cup Digits \cup {"_"}
        /\ valid.discord <=>
              /\ Len(input) \in 2..32
              /\ \A i \in 1..Len(input) :
                    input[i] \in Letters \cup Digits \cup {"_", "."}

\* A string of 21 word characters with a dot has been rejected by the first
\* validator and accepted by the second.
C17_Witness ==
    /\ valid # NotRun
    /\ Len(input) = 21
    /\ ~valid.roblox
    /\ valid.discord
    /\ \E i \in 1..Len(input) : input[i] = "."

\* ------------------------------------------------------------------ C13
WellFormed(s, class, lo, hi) ==
    /\ Len(s) >= lo
    /\ Len(s) <= hi
    /\ \A i \in 1..Len(s) : s[i] \in class

Acceptable(r, d, w) ==
    /\ r # Missing /\ d # Missing /\ w # Missing
    /\ WellFormed(r, Letters \cup Digits \cup {"_"}, 3, 20)
    /\ WellFormed(d, Letters \cup Digits \cup {"_", "."}, 2, 32)

RegRow(r, d, w) ==
    [roblox_username |-> r, discord_username |-> d, reason |-> w]

\* What a rejected registration is answered: status 400 and a flag for each
\* field that is missing or, when all are present, for each handle that
\* fails its format.
Rejected(r, d, w) ==
    /\ SubmitStatus(r, d, w) = 400
    /\ LET det == SubmitDetails(r, d, w)
           absent == r = Missing \/ d = Missing \/ w = Missing
       IN  /\ det.roblox \/ det.discord \/ det.reason
           /\ absent => /\ det.roblox <=> r = Missing
                        /\ det.discord <=> d = Missing
                        /\ det.reason <=> w = Missing
           /\ ~absent =>
                /\ det.roblox <=>
                     ~WellFormed(r, Letters \cup Digits \cup {"_"}, 3, 20)
                /\ det.discord <=>
                     ~WellFormed(d, Letters \cup Digits \cup {"_", "."}, 2, 32)

\* C13: every step that changes the registrations table appends exactly one
\* row, whose three fields are present and whose handles pass their format,
\* for a registration answered 200; and every registration with a missing
\* field or a malformed handle is answered 400 with the failing fields named,
\* so that no step stores it.
C13_SubmitValidates ==
    [][regs' # regs =>
        /\ \E r \in RobloxInputs, d \in DiscordInputs, w \in ReasonInputs :
              /\ Acceptable(r, d, w)
              /\ SubmitStatus(r, d, w) = 200
              /\ regs' = Append(regs, RegRow(r, d, w))
        /\ \A r \in RobloxInputs, d \in DiscordInputs, w \in ReasonInputs :
              ~Acceptable(r, d, w) =>
                  /\ Rejected(r, d, w)
                  /\ regs' # Append(regs, RegRow(r, d, w))]_vars

\* Two registrations with the same fields have each added one row.
C13_Witness ==
    /\ Len(regs) = 2
    /\ regs[1] = RegRow(UserB, <<"u", ".", "n">>, <<"r">>)
    /\ regs[2] = regs[1]

\* ------------------------------------------------------------------ C14
\* C14: a save-serial for S that answers 200 is followed by a state where
\* check-serial for S answers exists = true and validate-download for S
\* answers valid = true, and no step of any operation takes either answer
\* back from true to false.
C14_RoundTrip ==
    [][\A s \in Serials :
          /\ (SaveSerial(s) /\ SaveSerialStatus(s) = 200)
                => /\ CheckSerial(s)' = [status |-> 200, exists |-> TRUE]
                   /\ ValidateDownload(s)' = [status |-> 200, valid |-> TRUE]
          /\ CheckSerial(s).exists => CheckSerial(s)'.exists
          /\ ValidateDownload(s).valid => ValidateDownload(s)'.valid]_vars

\* A saved key is found after a registration was added and another key was
\* issued for it by a request that committed.
C14_Witness ==
    \E k \in Keys :
        /\ k.registration_id = NULL
        /\ CheckSerial(k.serial).exists
        /\ ValidateDownload(k.serial).valid
        /\ \E p \in Procs : Carries(p) /\ Answer(p).serialKey # k.serial
        /\ \E j \in Keys : j.registration_id # NULL

\* ------------------------------------------------------------------ C15
\* The Pool of lines 23-28 sets no connectionTimeoutMillis, query_timeout,
\* statement_timeout or lock_timeout, and the handler starts no timer: the
\* model has no step that ends an await because time passed.  StallSpec lets
\* the storage stall on the statements of every request but the first, whose
\* own steps are taken whenever they stay possible.
StallSpec == Spec /\ WF_vars(Proceed(1)) /\ WF_vars(DeadlockDetected(1))

\* C15: a request whose storage operation does not return is treated as
\* failed once the timeout has passed: request 1 answers even when the
\* statement it waits on is stalled behind another request.
C15_TimeoutFails == InFlight(1) ~> Done(1)

\* ------------------------------------------------------------------ C16
\* C16: all the issue-serial responses for one robloxUsername that carry a
\* serial carry the same serial, also when several registrations share the
\* username.
C16_OneSerialPerUsername ==
    \A p \in Procs : \A q \in Procs :
        (Carries(p) /\ Carries(q) /\ req[p] = req[q])
            => Answer(p).serialKey = Answer(q).serialKey

\* ------------------------------------------------------------------ C18
\* C18: from the moment an issue-serial response carries a serial, a
\* committed generatedkeys row holds that serial and references the
\* registration the request looked up; a request whose statement or COMMIT
\* was rejected, or that found no registration, answers without a serial.
C18_ReturnedSerialCommitted ==
    \A p \in Procs :
        /\ Carries(p) =>
              /\ \E k \in Keys :
                    /\ k.serial = Answer(p).serialKey
                    /\ k.registration_id = registrationId[p]
                    /\ k.registration_id \in 1..Len(regs)
              /\ failedAt[p] = "none"
              /\ Answer(p).status \in {200, 400}
        /\ (Done(p) /\ failedAt[p] # "none") => ~Carries(p)

\* One request answered its new serial; the COMMIT of the other was rejected
\* and it answered 500 without a serial.
C18_Witness ==
    \E p \in Procs : \E q \in Procs \ {p} :
        /\ Carries(p) /\ Answer(p).status = 200
        /\ Done(q) /\ failedAt[q] = "commit" /\ Answer(q) = Response(500, NoSerial)

\* ------------------------------------------------------------------ C19
\* C19: an issue-serial request that has ended has written exactly one
\* response and one that has not ended has written none, on every path: the
\* 400, 404, existing-key and success answers and the 500 of each failure,
\* a rejected ROLLBACK included.
C19_ExactlyOneResponse ==
    \A p \in Procs :
        /\ Len(resp[p]) <= 1
        /\ Done(p) <=> Len(resp[p]) = 1
        /\ (Done(p) /\ failedAt[p] # "none") => Answer(p) = Response(500, NoSerial)

\* The ROLLBACK of the existing-key path was rejected, the request went
\* through both catch blocks and the release, and holds the single answer
\* 500; the other request holds its single success answer.
C19_Witness ==
    \E p \in Procs : \E q \in Procs \ {p} :
        /\ Done(p) /\ failedAt[p] = "rollbackExists"
        /\ resp[p] = <<Response(500, NoSerial)>>
        /\ releases[p] = 1
        /\ Len(resp[q]) = 1 /\ Answer(q).status = 200

====
